---- MODULE Spec2Model ----
(***************************************************************************)
(* Sumcheck for products of multilinear polynomials: the orchestrator      *)
(* MLSumcheck (src/src/ml_sumcheck/mod.rs) driving the prover engine, the  *)
(* verifier engine and the Fiat-Shamir transcript.                         *)
(*                                                                         *)
(* The orchestrator is translated from mod.rs.  The engines it calls       *)
(* (protocol::prover, protocol::verifier), the polynomial data structures  *)
(* and the transcript (rng::FeedableRNG) are not part of mod.rs; they are  *)
(* modelled from sections 3, 4 and 6 of the specification.                 *)
(***************************************************************************)
EXTENDS Integers, Sequences, FiniteSets, TLC

(***************************************************************************)
(* Bounds of the model.                                                    *)
(***************************************************************************)
\* largest arity (num_variables) of an input polynomial
MaxVars == 2

(***************************************************************************)
(* The field F: integers modulo the prime FieldP.                          *)
(***************************************************************************)
FieldP == 5

F == 0..(FieldP - 1)

FAdd(a, b) == (a + b) % FieldP

FSub(a, b) == (a - b + FieldP) % FieldP

FMul(a, b) == (a * b) % FieldP

\* multiplicative inverse of a non-zero element
FInv(a) == CHOOSE b \in 1..(FieldP - 1) : (a * b) % FieldP = 1

\* an integer sample point 0, 1, ..., max_multiplicands as a field element
FOfNat(k) == k % FieldP

RECURSIVE FSum(_)
FSum(s) == IF s = <<>> THEN 0 ELSE FAdd(Head(s), FSum(Tail(s)))

RECURSIVE FProd(_)
FProd(s) == IF s = <<>> THEN 1 ELSE FMul(Head(s), FProd(Tail(s)))

(***************************************************************************)
(* Multilinear tables (spec 3, 4.1).  A table of arity k is a sequence of  *)
(* 2^k field elements; entry 2i-1, 2i of the sequence are the spec's       *)
(* table[2i], table[2i+1] (the model's sequences start at 1).              *)
(***************************************************************************)
\* (1-t)*a + t*b
Interp(a, b, t) == FAdd(FMul(FSub(1, t), a), FMul(t, b))

\* fold(table, challenge): fix the leading variable, halving the table
fold(table, challenge) ==
    [i \in 1..(Len(table) \div 2) |->
        Interp(table[2 * i - 1], table[2 * i], challenge)]

\* evaluate(table, point): multilinear interpolation at an arbitrary point
RECURSIVE evaluate(_, _)
evaluate(table, point) ==
    IF point = <<>> THEN table[1]
    ELSE evaluate(fold(table, Head(point)), Tail(point))

(***************************************************************************)
(* Product-list polynomials (spec 3): num_variables, products (each a      *)
(* coefficient and the indices of its multiplicand tables) and the tables. *)
(***************************************************************************)
RECURSIVE SeqMax(_)
SeqMax(s) ==
    IF s = <<>> THEN 0
    ELSE LET m == SeqMax(Tail(s)) IN IF Head(s) > m THEN Head(s) ELSE m

max_multiplicands(polynomial) ==
    SeqMax([i \in 1..Len(polynomial.products) |-> Len(polynomial.products[i].idx)])

\* info(): the shape summary; a function of the shape only
info(polynomial) ==
    [num_variables |-> polynomial.num_variables,
     max_multiplicands |-> max_multiplicands(polynomial),
     degrees |-> [i \in 1..Len(polynomial.products) |-> Len(polynomial.products[i].idx)]]

\* value of the product-list at row b of the (equally sized) tables
RowValue(products, tables, b) ==
    FSum([i \in 1..Len(products) |->
            FMul(products[i].coef,
                 FProd([j \in 1..Len(products[i].idx) |-> tables[products[i].idx[j]][b]]))])

\* the polynomial's sum over the whole Boolean hypercube, by brute force
HypercubeSum(polynomial) ==
    FSum([b \in 1..(2 ^ polynomial.num_variables) |->
            RowValue(polynomial.products, polynomial.tables, b)])

\* the polynomial's value at an arbitrary point of length num_variables
PolyEval(polynomial, point) ==
    FSum([i \in 1..Len(polynomial.products) |->
            FMul(polynomial.products[i].coef,
                 FProd([j \in 1..Len(polynomial.products[i].idx) |->
                          evaluate(polynomial.tables[polynomial.products[i].idx[j]], point)]))])

(***************************************************************************)
(* The input polynomials of the model.                                     *)
(***************************************************************************)
\* the values a cell of the first table is drawn from
CellValues == {0, 1}

\* the second table, a fixed non-constant table of the given arity
SecondTable(n) == [b \in 1..(2 ^ n) |-> (b + 1) % FieldP]

\* the product shapes: one factor; a product of two; a sum sharing a table
Shapes ==
    { << [coef |-> 1, idx |-> <<1>>] >>,
      << [coef |-> 2, idx |-> <<1, 2>>] >>,
      << [coef |-> 1, idx |-> <<2>>], [coef |-> 3, idx |-> <<1, 2>>] >> }

\* number of distinct tables a shape refers to
NumTables(sh) == SeqMax([i \in 1..Len(sh) |-> SeqMax(sh[i].idx)])

\* the polynomial of arity n and shape sh whose first table is f
Polynomial(n, sh, f) ==
    [num_variables |-> n,
     products |-> sh,
     tables |-> SubSeq(<<f, SecondTable(n)>>, 1, NumTables(sh))]

\* every first table with cells in CellValues
Polynomials ==
    UNION { { Polynomial(n, sh, f) : sh \in Shapes, f \in [1..(2 ^ n) -> CellValues] } :
            n \in 0..MaxVars }

\* the first tables with at most one non-zero cell, the first (every
\* variable 0) or the last (every variable 1: the product of the variables)
SparseTables(n) ==
    { [b \in 1..(2 ^ n) |-> IF b = c THEN v ELSE 0] : c \in {1, 2 ^ n}, v \in CellValues }

SparsePolynomials ==
    UNION { { Polynomial(n, sh, f) : sh \in Shapes, f \in SparseTables(n) } :
            n \in 0..MaxVars }

(***************************************************************************)
(* The transcript (spec 6): feed absorbs a value, sample_round draws a     *)
(* challenge that is a deterministic function of everything absorbed and   *)
(* sampled before.  A transcript is the sequence of its events; the        *)
(* function from transcripts to challenges is `oracle', fixed point by     *)
(* point the first time a transcript is sampled.                           *)
(***************************************************************************)
\* what feed absorbs of a shape summary and of a prover message: the
\* serialized value, a sequence of numbers
FeedInfo(x) ==
    [op |-> "feed", kind |-> "info",
     val |-> <<x.num_variables, x.max_multiplicands>> \o x.degrees]

FeedMsg(x) == [op |-> "feed", kind |-> "msg", val |-> x.evaluations]

SampleEv(r) == [op |-> "sample", kind |-> "challenge", val |-> <<r>>]

\* Blake2s512Rng::setup(): the fresh transcript
setup == <<>>

\* feed: the transcript after absorbing an event
feed(rng, ev) == Append(rng, ev)

\* the challenges sample_round may return on transcript rng under orc
Challenges(rng, orc) == IF rng \in DOMAIN orc THEN {orc[rng]} ELSE F

\* the oracle after answering r on transcript rng
Answered(rng, orc, r) == IF rng \in DOMAIN orc THEN orc ELSE (rng :> r) @@ orc

\* the challenges sampled so far on a transcript, in order
RECURSIVE Sampled(_)
Sampled(rng) ==
    IF rng = <<>> THEN <<>>
    ELSE LET e == rng[Len(rng)]
             rest == Sampled(SubSeq(rng, 1, Len(rng) - 1))
         IN IF e.op = "sample" THEN Append(rest, e.val[1]) ELSE rest

(***************************************************************************)
(* The prover engine (spec 4.2).                                           *)
(***************************************************************************)
\* prover_init: a private copy of every table, no challenge yet
prover_init(polynomial) ==
    [randomness |-> <<>>,
     list_of_products |-> polynomial.products,
     flattened_ml_extensions |-> polynomial.tables,
     num_vars |-> polynomial.num_variables,
     max_multiplicands |-> max_multiplicands(polynomial)]

\* the round polynomial at sample point t: the leading variable set to t,
\* the remaining variables summed over the Boolean sub-cube
RoundValue(st, t) ==
    FSum([b \in 1..(2 ^ (st.num_vars - 1)) |->
        FSum([i \in 1..Len(st.list_of_products) |->
            FMul(st.list_of_products[i].coef,
                 FProd([j \in 1..Len(st.list_of_products[i].idx) |->
                    LET tab == st.flattened_ml_extensions[st.list_of_products[i].idx[j]]
                    IN Interp(tab[2 * b - 1], tab[2 * b], FOfNat(t))]))])])

\* step 1 of prove_round: fold on the last challenge, if there is one
FoldStep(st, v_msg) ==
    IF v_msg = <<>> THEN st
    ELSE [st EXCEPT
            !.randomness = Append(@, v_msg[1]),
            !.flattened_ml_extensions =
                [j \in 1..Len(@) |-> fold(@[j], v_msg[1])],
            !.num_vars = @ - 1]

\* prove_round: the state after the round and the round's message
prove_round(st, v_msg) ==
    LET st1 == FoldStep(st, v_msg)
    IN [state |-> st1,
        msg |-> [evaluations |->
                    [t \in 1..(st1.max_multiplicands + 1) |-> RoundValue(st1, t - 1)]]]

(***************************************************************************)
(* The verifier engine (spec 4.3).  verify_round returns the verifier's    *)
(* message, which the orchestrator drops, so a failed check is recorded in *)
(* the state and reported by check_and_generate_subclaim.                  *)
(***************************************************************************)
\* an optional value: None, or Some(v)
None == <<>>

Some(v) == <<v>>

NoFailure == "none"

\* verifier_init: arity and max_multiplicands of the shape summary
verifier_init(inf) ==
    [nv |-> inf.num_variables,
     max_multiplicands |-> inf.max_multiplicands,
     round |-> 0,
     randomness |-> <<>>,
     baseline |-> None,
     expected |-> None,
     failure |-> NoFailure]

\* the polynomial of degree < Len(evals) through (i-1, evals[i]), at r
interpolate_uni_poly(evals, r) ==
    FSum([i \in 1..Len(evals) |->
        FMul(evals[i],
             FProd([j \in 1..Len(evals) |->
                IF j = i THEN 1
                ELSE FMul(FSub(r, FOfNat(j - 1)),
                          FInv(FSub(FOfNat(i - 1), FOfNat(j - 1))))]))])

\* steps 1 and 2 of verify_round: the failure the message causes, if any
RoundFailure(st, message) ==
    IF Len(message.evaluations) # st.max_multiplicands + 1 THEN "malformed"
    ELSE IF st.round > 0
            /\ Some(FAdd(message.evaluations[1], message.evaluations[2])) # st.expected
         THEN "inconsistent"
         ELSE NoFailure

\* verify_round with the challenge r sampled in its step 3
verify_round(message, st, r) ==
    IF st.failure # NoFailure THEN st
    ELSE IF RoundFailure(st, message) # NoFailure
         THEN [st EXCEPT !.failure = RoundFailure(st, message)]
         ELSE [st EXCEPT
                 !.baseline = IF st.round = 0
                              THEN Some(FAdd(message.evaluations[1], message.evaluations[2]))
                              ELSE @,
                 !.randomness = Append(@, r),
                 !.expected = Some(interpolate_uni_poly(message.evaluations, r)),
                 !.round = @ + 1]

\* does verify_round get as far as sampling a challenge?
RoundSamples(st, message) ==
    st.failure = NoFailure /\ RoundFailure(st, message) = NoFailure

\* check_and_generate_subclaim: the result of the verification
check_and_generate_subclaim(st, claimed) ==
    IF st.failure # NoFailure
    THEN [status |-> st.failure, check |-> "round", point |-> <<>>, expected_value |-> None]
    ELSE IF st.baseline # Some(claimed)
    THEN [status |-> "inconsistent", check |-> "claimed_sum",
          point |-> <<>>, expected_value |-> None]
    ELSE [status |-> "ok", check |-> "all",
          point |-> st.randomness, expected_value |-> st.expected]

(***************************************************************************)
(* The state of a run: one call of prove_as_subprotocol on a fresh         *)
(* transcript, then one call of verify_as_subprotocol, on a transcript in  *)
(* the same initial state, of a proof the caller hands in.                 *)
(***************************************************************************)
VARIABLES
    polynomial,      \* the product-list polynomial being proven
    pc,              \* position of the run
    oracle,          \* the transcript's challenge function, as far as fixed
    fs_rng,          \* prove_as_subprotocol: the transcript
    prover_state,    \* prove_as_subprotocol: prover_state
    verifier_msg,    \* prove_as_subprotocol: verifier_msg, None or Some(r)
    prover_msgs,     \* prove_as_subprotocol: prover_msgs
    p_result,        \* how prove_as_subprotocol ended
    proof,           \* verify_as_subprotocol: proof
    claimed_sum,     \* verify_as_subprotocol: claimed_sum
    v_rng,           \* verify_as_subprotocol: the transcript
    verifier_state,  \* verify_as_subprotocol: verifier_state
    v_i,             \* verify_as_subprotocol: the loop index i
    v_result,        \* how verify_as_subprotocol ended
    polynomial_0,    \* multi_degree_prove_as_subprotocol: polynomial_0
    polynomial_1,    \* multi_degree_prove_as_subprotocol: polynomial_1
    prover_0_state,  \* multi_degree_prove_as_subprotocol: prover_0_state
    prover_1_state,  \* multi_degree_prove_as_subprotocol: prover_1_state
    prover_0_msgs,   \* multi_degree_prove_as_subprotocol: prover_0_msgs
    prover_1_msgs,   \* multi_degree_prove_as_subprotocol: prover_1_msgs
    polynomial_info, \* multi_degree_verify_as_subprotocol: polynomial_info
    proofs,          \* multi_degree_verify_as_subprotocol: proofs
    verifiers_state  \* multi_degree_verify_as_subprotocol: verifiers_state

pvars == <<fs_rng, prover_state, verifier_msg, prover_msgs, p_result>>

vvars == <<proof, claimed_sum, v_rng, verifier_state, v_i, v_result>>

\* the variables of the batched (multi-degree) calls; the batched calls
\* share pc, oracle, fs_rng, verifier_msg, p_result, claimed_sum, v_rng, v_i
\* and v_result with the unbatched ones
bvars == <<polynomial_0, polynomial_1, prover_0_state, prover_1_state,
           prover_0_msgs, prover_1_msgs, polynomial_info, proofs, verifiers_state>>

vars == <<polynomial, pc, oracle, pvars, vvars, bvars>>

NoResult == [status |-> "none", check |-> "none", point |-> <<>>, expected_value |-> None]

Failed(kind) == [status |-> kind, check |-> "none", point |-> <<>>, expected_value |-> None]

\* the start of a run on the given input polynomials
InitOn(inputs) ==
    /\ polynomial \in inputs
    /\ pc = "p_start"
    /\ oracle = <<>>
    /\ fs_rng = setup
    /\ prover_state = None
    /\ verifier_msg = None
    /\ prover_msgs = <<>>
    /\ p_result = "none"
    /\ proof = <<>>
    /\ claimed_sum = 0
    /\ v_rng = setup
    /\ verifier_state = None
    /\ v_i = 0
    /\ v_result = NoResult
    /\ polynomial_0 = None
    /\ polynomial_1 = None
    /\ prover_0_state = None
    /\ prover_1_state = None
    /\ prover_0_msgs = <<>>
    /\ prover_1_msgs = <<>>
    /\ polynomial_info = None
    /\ proofs = None
    /\ verifiers_state = None

(***************************************************************************)
(* prove_as_subprotocol (mod.rs 50-69).                                    *)
(***************************************************************************)
\* line 54, a feed that fails: the error is returned
ProveInfoFeedFails ==
    /\ pc = "p_start"
    /\ pc' = "p_done"
    /\ p_result' = "err_transcript"
    /\ UNCHANGED <<bvars, polynomial, oracle, fs_rng, prover_state, verifier_msg, prover_msgs, vvars>>

\* lines 54-58: feed the shape summary, create the prover state
ProveStart ==
    /\ pc = "p_start"
    /\ fs_rng' = feed(fs_rng, FeedInfo(info(polynomial)))
    /\ prover_state' = prover_init(polynomial)
    /\ verifier_msg' = None
    /\ prover_msgs' = <<>>
    /\ pc' = "p_loop"
    /\ UNCHANGED <<bvars, polynomial, oracle, p_result, vvars>>

\* lines 60-61, the round's feed fails: the error is returned
ProveRoundFeedFails ==
    /\ pc = "p_loop"
    /\ Len(prover_msgs) < polynomial.num_variables
    /\ prover_state' = prove_round(prover_state, verifier_msg).state
    /\ pc' = "p_done"
    /\ p_result' = "err_transcript"
    /\ UNCHANGED <<bvars, polynomial, oracle, fs_rng, verifier_msg, prover_msgs, vvars>>

\* ProveRound with the challenge sampled before the message is fed
ProveRound_SampleFirst ==
    /\ pc = "p_loop"
    /\ Len(prover_msgs) < polynomial.num_variables
    /\ LET pr == prove_round(prover_state, verifier_msg)
       IN /\ prover_state' = pr.state
          /\ prover_msgs' = Append(prover_msgs, pr.msg)
          /\ \E r \in Challenges(fs_rng, oracle) :
                /\ oracle' = Answered(fs_rng, oracle, r)
                /\ fs_rng' = feed(feed(fs_rng, SampleEv(r)), FeedMsg(pr.msg))
                /\ verifier_msg' = Some(r)
    /\ UNCHANGED <<bvars, polynomial, pc, p_result, vvars>>

\* lines 59-64, one iteration: prove_round, feed, push, sample_round
ProveRound ==
    /\ pc = "p_loop"
    /\ Len(prover_msgs) < polynomial.num_variables
    /\ LET pr == prove_round(prover_state, verifier_msg)
           fed == feed(fs_rng, FeedMsg(pr.msg))
       IN /\ prover_state' = pr.state
          /\ prover_msgs' = Append(prover_msgs, pr.msg)
          /\ \E r \in Challenges(fed, oracle) :
                /\ oracle' = Answered(fed, oracle, r)
                /\ fs_rng' = feed(fed, SampleEv(r))
                /\ verifier_msg' = Some(r)
    /\ UNCHANGED <<bvars, polynomial, pc, p_result, vvars>>

\* lines 65-68: push the pending challenge and return; unwrap() of None panics
ProveFinish ==
    /\ pc = "p_loop"
    /\ Len(prover_msgs) >= polynomial.num_variables
    /\ pc' = "p_done"
    /\ IF verifier_msg = None
       THEN /\ p_result' = "panic"
            /\ UNCHANGED prover_state
       ELSE /\ prover_state' =
                 [prover_state EXCEPT !.randomness = Append(@, verifier_msg[1])]
            /\ p_result' = "ok"
    /\ UNCHANGED <<bvars, polynomial, oracle, fs_rng, verifier_msg, prover_msgs, vvars>>

\* extract_sum without its second term
extract_sum_first(prf) == prf[1].evaluations[1]

\* extract_sum (mod.rs 26-28)
extract_sum(prf) == FAdd(prf[1].evaluations[1], prf[1].evaluations[2])

(***************************************************************************)
(* The proofs a caller hands to verify: the prover's, or the prover's      *)
(* with its tail cut off, with one evaluation changed, or with one message *)
(* carrying one evaluation less or more.                                   *)
(***************************************************************************)
Truncated(prf) == {SubSeq(prf, 1, k) : k \in 0..(Len(prf) - 1)}

Tampered(prf) ==
    {[prf EXCEPT ![i].evaluations[j] = v] :
        i \in 1..Len(prf), j \in 1..(max_multiplicands(polynomial) + 1), v \in F} \ {prf}

Resized(prf) ==
    {[prf EXCEPT ![i].evaluations = SubSeq(@, 1, Len(@) - 1)] : i \in 1..Len(prf)}
    \cup {[prf EXCEPT ![i].evaluations = Append(@, 0)] : i \in 1..Len(prf)}

Proofs(prf) == {prf} \cup Truncated(prf) \cup Tampered(prf) \cup Resized(prf)

\* the sums claimed with a proof: any sum with the prover's proof; the true
\* sum, and the sum the proof itself carries, with a changed proof
ClaimedSums(prf) ==
    IF prf = prover_msgs THEN F
    ELSE {HypercubeSum(polynomial)}
         \cup (IF Len(prf) > 0 /\ Len(prf[1].evaluations) > 1
               THEN {extract_sum(prf)} ELSE {})

\* the caller of verify (mod.rs 115-122): a proof and a claimed sum
CallVerify ==
    /\ pc = "p_done"
    /\ polynomial # None
    /\ p_result = "ok"
    /\ proof' \in Proofs(prover_msgs)
    /\ claimed_sum' \in ClaimedSums(proof')
    /\ v_rng' = setup
    /\ pc' = "v_start"
    /\ UNCHANGED <<bvars, polynomial, oracle, pvars, verifier_state, v_i, v_result>>

(***************************************************************************)
(* verify_as_subprotocol (mod.rs 165-181).                                 *)
(***************************************************************************)
\* line 171, a feed that fails: the error is returned
VerifyInfoFeedFails ==
    /\ pc = "v_start"
    /\ pc' = "v_done"
    /\ v_result' = Failed("err_transcript")
    /\ UNCHANGED <<bvars, polynomial, oracle, pvars, proof, claimed_sum, v_rng, verifier_state, v_i>>

\* VerifyStart without the feed of the shape summary
VerifyStart_NoInfoFeed ==
    /\ pc = "v_start"
    /\ verifier_state' = verifier_init(info(polynomial))
    /\ v_i' = 0
    /\ pc' = "v_loop"
    /\ UNCHANGED <<bvars, polynomial, oracle, pvars, proof, claimed_sum, v_rng, v_result>>

\* VerifyStart with the round loop starting at i = 1
VerifyStart_LoopFromOne ==
    /\ pc = "v_start"
    /\ v_rng' = feed(v_rng, FeedInfo(info(polynomial)))
    /\ verifier_state' = verifier_init(info(polynomial))
    /\ v_i' = 1
    /\ pc' = "v_loop"
    /\ UNCHANGED <<bvars, polynomial, oracle, pvars, proof, claimed_sum, v_result>>

\* lines 171-172: feed the shape summary, create the verifier state
VerifyStart ==
    /\ pc = "v_start"
    /\ v_rng' = feed(v_rng, FeedInfo(info(polynomial)))
    /\ verifier_state' = verifier_init(info(polynomial))
    /\ v_i' = 0
    /\ pc' = "v_loop"
    /\ UNCHANGED <<bvars, polynomial, oracle, pvars, proof, claimed_sum, v_result>>

\* line 174: proof.get(i) is None and expect() panics
VerifyRoundPanics ==
    /\ pc = "v_loop"
    /\ v_i < info(polynomial).num_variables
    /\ v_i >= Len(proof)
    /\ pc' = "v_done"
    /\ v_result' = Failed("panic")
    /\ UNCHANGED <<bvars, polynomial, oracle, pvars, proof, claimed_sum, v_rng, verifier_state, v_i>>

\* as VerifyRoundFeedFails, but the loop goes on to the next message
VerifyRoundFeedFails_Continues ==
    /\ pc = "v_loop"
    /\ v_i < info(polynomial).num_variables
    /\ v_i < Len(proof)
    /\ v_i' = v_i + 1
    /\ v_result' = Failed("err_transcript")
    /\ UNCHANGED <<bvars, polynomial, pc, oracle, pvars, proof, claimed_sum, v_rng,
                   verifier_state>>

\* line 175, the round's feed fails: the error is returned
VerifyRoundFeedFails ==
    /\ pc = "v_loop"
    /\ v_i < info(polynomial).num_variables
    /\ v_i < Len(proof)
    /\ pc' = "v_done"
    /\ v_result' = Failed("err_transcript")
    /\ UNCHANGED <<bvars, polynomial, oracle, pvars, proof, claimed_sum, v_rng, verifier_state, v_i>>

\* VerifyRound without the feed of the prover's message
VerifyRound_NoFeed ==
    /\ pc = "v_loop"
    /\ v_i < info(polynomial).num_variables
    /\ v_i < Len(proof)
    /\ LET prover_msg == proof[v_i + 1]
       IN IF RoundSamples(verifier_state, prover_msg)
          THEN \E r \in Challenges(v_rng, oracle) :
                /\ oracle' = Answered(v_rng, oracle, r)
                /\ v_rng' = feed(v_rng, SampleEv(r))
                /\ verifier_state' = verify_round(prover_msg, verifier_state, r)
          ELSE /\ verifier_state' = verify_round(prover_msg, verifier_state, 0)
               /\ UNCHANGED <<oracle, v_rng>>
    /\ v_i' = v_i + 1
    /\ UNCHANGED <<bvars, polynomial, pc, pvars, proof, claimed_sum, v_result>>

\* VerifyRound that feeds the first message but does not verify it
VerifyRound_FirstUnchecked ==
    /\ pc = "v_loop"
    /\ v_i < info(polynomial).num_variables
    /\ v_i < Len(proof)
    /\ LET prover_msg == proof[v_i + 1]
           fed == feed(v_rng, FeedMsg(prover_msg))
       IN IF v_i = 0
          THEN /\ v_rng' = fed
               /\ UNCHANGED <<oracle, verifier_state>>
          ELSE IF RoundSamples(verifier_state, prover_msg)
          THEN \E r \in Challenges(fed, oracle) :
                /\ oracle' = Answered(fed, oracle, r)
                /\ v_rng' = feed(fed, SampleEv(r))
                /\ verifier_state' = verify_round(prover_msg, verifier_state, r)
          ELSE /\ v_rng' = fed
               /\ verifier_state' = verify_round(prover_msg, verifier_state, 0)
               /\ UNCHANGED oracle
    /\ v_i' = v_i + 1
    /\ UNCHANGED <<bvars, polynomial, pc, pvars, proof, claimed_sum, v_result>>

\* VerifyRound that feeds the last message but does not verify it
VerifyRound_LastUnchecked ==
    /\ pc = "v_loop"
    /\ v_i < info(polynomial).num_variables
    /\ v_i < Len(proof)
    /\ LET prover_msg == proof[v_i + 1]
           fed == feed(v_rng, FeedMsg(prover_msg))
       IN IF v_i + 1 = info(polynomial).num_variables /\ v_i > 0
          THEN /\ v_rng' = fed
               /\ UNCHANGED <<oracle, verifier_state>>
          ELSE IF RoundSamples(verifier_state, prover_msg)
          THEN \E r \in Challenges(fed, oracle) :
                /\ oracle' = Answered(fed, oracle, r)
                /\ v_rng' = feed(fed, SampleEv(r))
                /\ verifier_state' = verify_round(prover_msg, verifier_state, r)
          ELSE /\ v_rng' = fed
               /\ verifier_state' = verify_round(prover_msg, verifier_state, 0)
               /\ UNCHANGED oracle
    /\ v_i' = v_i + 1
    /\ UNCHANGED <<bvars, polynomial, pc, pvars, proof, claimed_sum, v_result>>

\* lines 173-178, one iteration: get(i), feed, verify_round (result dropped)
VerifyRound ==
    /\ pc = "v_loop"
    /\ v_i < info(polynomial).num_variables
    /\ v_i < Len(proof)
    /\ LET prover_msg == proof[v_i + 1]
           fed == feed(v_rng, FeedMsg(prover_msg))
       IN IF RoundSamples(verifier_state, prover_msg)
          THEN \E r \in Challenges(fed, oracle) :
                /\ oracle' = Answered(fed, oracle, r)
                /\ v_rng' = feed(fed, SampleEv(r))
                /\ verifier_state' = verify_round(prover_msg, verifier_state, r)
          ELSE /\ v_rng' = fed
               /\ verifier_state' = verify_round(prover_msg, verifier_state, 0)
               /\ UNCHANGED oracle
    /\ v_i' = v_i + 1
    /\ UNCHANGED <<bvars, polynomial, pc, pvars, proof, claimed_sum, v_result>>

\* VerifyFinish that passes the proof's own sum for the claimed sum
VerifyFinish_IgnoresClaim ==
    /\ pc = "v_loop"
    /\ v_i >= info(polynomial).num_variables
    /\ pc' = "v_done"
    /\ v_result' = check_and_generate_subclaim(verifier_state, extract_sum(proof))
    /\ UNCHANGED <<bvars, polynomial, oracle, pvars, proof, claimed_sum, v_rng, verifier_state, v_i>>

\* line 180: check_and_generate_subclaim
VerifyFinish ==
    /\ pc = "v_loop"
    /\ v_i >= info(polynomial).num_variables
    /\ pc' = "v_done"
    /\ v_result' = check_and_generate_subclaim(verifier_state, claimed_sum)
    /\ UNCHANGED <<bvars, polynomial, oracle, pvars, proof, claimed_sum, v_rng, verifier_state, v_i>>

Next ==
    \/ ProveInfoFeedFails
    \/ ProveStart
    \/ ProveRoundFeedFails
    \/ ProveRound
    \/ ProveFinish
    \/ CallVerify
    \/ VerifyInfoFeedFails
    \/ VerifyStart
    \/ VerifyRoundPanics
    \/ VerifyRoundFeedFails
    \/ VerifyRound
    \/ VerifyFinish

(***************************************************************************)
(* Spec: prove, then verify, on the input polynomials with a sparse first  *)
(* table.  SpecProve: prove alone, on every input polynomial.              *)
(***************************************************************************)
Init == InitOn(SparsePolynomials)

Spec == Init /\ [][Next]_vars

InitProve == InitOn(Polynomials)

NextProve ==
    \/ ProveInfoFeedFails
    \/ ProveStart
    \/ ProveRoundFeedFails
    \/ ProveRound
    \/ ProveFinish

SpecProve == InitProve /\ [][NextProve]_vars

(***************************************************************************)
(* multi_degree_prove_as_subprotocol (mod.rs 73-112): two polynomials, the *)
(* first of the larger arity, proven on one transcript.                    *)
(***************************************************************************)
\* line 78: the assertion fails and the call panics
MultiProveAssertFails ==
    /\ pc = "mp_start"
    /\ ~(polynomial_0.num_variables > polynomial_1.num_variables)
    /\ pc' = "p_done"
    /\ p_result' = "panic"
    /\ UNCHANGED <<polynomial, oracle, fs_rng, prover_state, verifier_msg, prover_msgs,
                   vvars, bvars>>

\* lines 79-80, the first or the second feed fails: the error is returned
MultiProveInfoFeedFails ==
    /\ pc = "mp_start"
    /\ polynomial_0.num_variables > polynomial_1.num_variables
    /\ \/ UNCHANGED fs_rng
       \/ fs_rng' = feed(fs_rng, FeedInfo(info(polynomial_0)))
    /\ pc' = "p_done"
    /\ p_result' = "err_transcript"
    /\ UNCHANGED <<polynomial, oracle, prover_state, verifier_msg, prover_msgs, vvars, bvars>>

\* as MultiProveStart, but equal arities pass the assertion
MultiProveStart_AllowsEqual ==
    /\ pc = "mp_start"
    /\ polynomial_0.num_variables >= polynomial_1.num_variables
    /\ fs_rng' = feed(feed(fs_rng, FeedInfo(info(polynomial_0))),
                      FeedInfo(info(polynomial_1)))
    /\ prover_0_state' = prover_init(polynomial_0)
    /\ prover_1_state' = prover_init(polynomial_1)
    /\ verifier_msg' = None
    /\ prover_0_msgs' = <<>>
    /\ prover_1_msgs' = <<>>
    /\ pc' = "mp_shared"
    /\ UNCHANGED <<polynomial, oracle, prover_state, prover_msgs, p_result, vvars,
                   polynomial_0, polynomial_1, polynomial_info, proofs, verifiers_state>>

\* lines 78-86: the assertion holds; feed both shape summaries, create
\* both prover states
MultiProveStart ==
    /\ pc = "mp_start"
    /\ polynomial_0.num_variables > polynomial_1.num_variables
    /\ fs_rng' = feed(feed(fs_rng, FeedInfo(info(polynomial_0))),
                      FeedInfo(info(polynomial_1)))
    /\ prover_0_state' = prover_init(polynomial_0)
    /\ prover_1_state' = prover_init(polynomial_1)
    /\ verifier_msg' = None
    /\ prover_0_msgs' = <<>>
    /\ prover_1_msgs' = <<>>
    /\ pc' = "mp_shared"
    /\ UNCHANGED <<polynomial, oracle, prover_state, prover_msgs, p_result, vvars,
                   polynomial_0, polynomial_1, polynomial_info, proofs, verifiers_state>>

\* lines 88-91, the feed of prover 0's or of prover 1's message fails
MultiProveSharedFeedFails ==
    /\ pc = "mp_shared"
    /\ Len(prover_1_msgs) < polynomial_1.num_variables
    /\ LET pr0 == prove_round(prover_0_state, verifier_msg)
           pr1 == prove_round(prover_1_state, verifier_msg)
       IN /\ prover_0_state' = pr0.state
          /\ prover_1_state' = pr1.state
          /\ \/ UNCHANGED fs_rng
             \/ fs_rng' = feed(fs_rng, FeedMsg(pr0.msg))
    /\ pc' = "p_done"
    /\ p_result' = "err_transcript"
    /\ UNCHANGED <<polynomial, oracle, prover_state, verifier_msg, prover_msgs, vvars,
                   polynomial_0, polynomial_1, prover_0_msgs, prover_1_msgs,
                   polynomial_info, proofs, verifiers_state>>

\* as MultiProveSharedRound, but prover 1's message is fed before prover 0's
MultiProveSharedRound_FeedSwapped ==
    /\ pc = "mp_shared"
    /\ Len(prover_1_msgs) < polynomial_1.num_variables
    /\ LET pr0 == prove_round(prover_0_state, verifier_msg)
           pr1 == prove_round(prover_1_state, verifier_msg)
           fed == feed(feed(fs_rng, FeedMsg(pr1.msg)), FeedMsg(pr0.msg))
       IN /\ prover_0_state' = pr0.state
          /\ prover_1_state' = pr1.state
          /\ prover_0_msgs' = Append(prover_0_msgs, pr0.msg)
          /\ prover_1_msgs' = Append(prover_1_msgs, pr1.msg)
          /\ \E r \in Challenges(fed, oracle) :
                /\ oracle' = Answered(fed, oracle, r)
                /\ fs_rng' = feed(fed, SampleEv(r))
                /\ verifier_msg' = Some(r)
    /\ UNCHANGED <<polynomial, pc, prover_state, prover_msgs, p_result, vvars,
                   polynomial_0, polynomial_1, polynomial_info, proofs, verifiers_state>>

\* lines 87-95, one shared iteration: both prove_rounds on the same
\* verifier_msg, both feeds, both pushes, one sample_round
MultiProveSharedRound ==
    /\ pc = "mp_shared"
    /\ Len(prover_1_msgs) < polynomial_1.num_variables
    /\ LET pr0 == prove_round(prover_0_state, verifier_msg)
           pr1 == prove_round(prover_1_state, verifier_msg)
           fed == feed(feed(fs_rng, FeedMsg(pr0.msg)), FeedMsg(pr1.msg))
       IN /\ prover_0_state' = pr0.state
          /\ prover_1_state' = pr1.state
          /\ prover_0_msgs' = Append(prover_0_msgs, pr0.msg)
          /\ prover_1_msgs' = Append(prover_1_msgs, pr1.msg)
          /\ \E r \in Challenges(fed, oracle) :
                /\ oracle' = Answered(fed, oracle, r)
                /\ fs_rng' = feed(fed, SampleEv(r))
                /\ verifier_msg' = Some(r)
    /\ UNCHANGED <<polynomial, pc, prover_state, prover_msgs, p_result, vvars,
                   polynomial_0, polynomial_1, polynomial_info, proofs, verifiers_state>>

\* as MultiProveSharedEnd, but the pending challenge is not pushed
MultiProveSharedEnd_NoPush ==
    /\ pc = "mp_shared"
    /\ Len(prover_1_msgs) >= polynomial_1.num_variables
    /\ IF verifier_msg = None
       THEN /\ pc' = "p_done"
            /\ p_result' = "panic"
       ELSE /\ pc' = "mp_tail"
            /\ UNCHANGED p_result
    /\ UNCHANGED <<polynomial, oracle, fs_rng, prover_state, verifier_msg, prover_msgs, vvars,
                   bvars>>

\* lines 96-98: push the pending challenge to prover 1; unwrap() of None
\* panics
MultiProveSharedEnd ==
    /\ pc = "mp_shared"
    /\ Len(prover_1_msgs) >= polynomial_1.num_variables
    /\ IF verifier_msg = None
       THEN /\ pc' = "p_done"
            /\ p_result' = "panic"
            /\ UNCHANGED prover_1_state
       ELSE /\ prover_1_state' =
                 [prover_1_state EXCEPT !.randomness = Append(@, verifier_msg[1])]
            /\ pc' = "mp_tail"
            /\ UNCHANGED p_result
    /\ UNCHANGED <<polynomial, oracle, fs_rng, prover_state, verifier_msg, prover_msgs, vvars,
                   polynomial_0, polynomial_1, prover_0_state, prover_0_msgs, prover_1_msgs,
                   polynomial_info, proofs, verifiers_state>>

\* lines 100-101, the feed of prover 0's message fails
MultiProveTailFeedFails ==
    /\ pc = "mp_tail"
    /\ Len(prover_0_msgs) < polynomial_0.num_variables
    /\ prover_0_state' = prove_round(prover_0_state, verifier_msg).state
    /\ pc' = "p_done"
    /\ p_result' = "err_transcript"
    /\ UNCHANGED <<polynomial, oracle, fs_rng, prover_state, verifier_msg, prover_msgs, vvars,
                   polynomial_0, polynomial_1, prover_1_state, prover_0_msgs, prover_1_msgs,
                   polynomial_info, proofs, verifiers_state>>

\* as MultiProveTailRound, but the message is put at the front of the proof
MultiProveTailRound_PushFront ==
    /\ pc = "mp_tail"
    /\ Len(prover_0_msgs) < polynomial_0.num_variables
    /\ LET pr == prove_round(prover_0_state, verifier_msg)
           fed == feed(fs_rng, FeedMsg(pr.msg))
       IN /\ prover_0_state' = pr.state
          /\ prover_0_msgs' = <<pr.msg>> \o prover_0_msgs
          /\ \E r \in Challenges(fed, oracle) :
                /\ oracle' = Answered(fed, oracle, r)
                /\ fs_rng' = feed(fed, SampleEv(r))
                /\ verifier_msg' = Some(r)
    /\ UNCHANGED <<polynomial, pc, prover_state, prover_msgs, p_result, vvars,
                   polynomial_0, polynomial_1, prover_1_state, prover_1_msgs,
                   polynomial_info, proofs, verifiers_state>>

\* lines 99-104, one iteration of the rest: prover 0 alone
MultiProveTailRound ==
    /\ pc = "mp_tail"
    /\ Len(prover_0_msgs) < polynomial_0.num_variables
    /\ LET pr == prove_round(prover_0_state, verifier_msg)
           fed == feed(fs_rng, FeedMsg(pr.msg))
       IN /\ prover_0_state' = pr.state
          /\ prover_0_msgs' = Append(prover_0_msgs, pr.msg)
          /\ \E r \in Challenges(fed, oracle) :
                /\ oracle' = Answered(fed, oracle, r)
                /\ fs_rng' = feed(fed, SampleEv(r))
                /\ verifier_msg' = Some(r)
    /\ UNCHANGED <<polynomial, pc, prover_state, prover_msgs, p_result, vvars,
                   polynomial_0, polynomial_1, prover_1_state, prover_1_msgs,
                   polynomial_info, proofs, verifiers_state>>

\* lines 105-111: push the pending challenge to prover 0 and return
MultiProveFinish ==
    /\ pc = "mp_tail"
    /\ Len(prover_0_msgs) >= polynomial_0.num_variables
    /\ pc' = "p_done"
    /\ IF verifier_msg = None
       THEN /\ p_result' = "panic"
            /\ UNCHANGED prover_0_state
       ELSE /\ prover_0_state' =
                 [prover_0_state EXCEPT !.randomness = Append(@, verifier_msg[1])]
            /\ p_result' = "ok"
    /\ UNCHANGED <<polynomial, oracle, fs_rng, prover_state, verifier_msg, prover_msgs, vvars,
                   polynomial_0, polynomial_1, prover_1_state, prover_0_msgs, prover_1_msgs,
                   polynomial_info, proofs, verifiers_state>>

NextMultiProve ==
    \/ MultiProveAssertFails
    \/ MultiProveInfoFeedFails
    \/ MultiProveStart
    \/ MultiProveSharedFeedFails
    \/ MultiProveSharedRound
    \/ MultiProveSharedEnd
    \/ MultiProveTailFeedFails
    \/ MultiProveTailRound
    \/ MultiProveFinish

\* the start of a batched run: two input polynomials of any two arities
InitMulti ==
    /\ polynomial = None
    /\ pc = "mp_start"
    /\ oracle = <<>>
    /\ fs_rng = setup
    /\ prover_state = None
    /\ verifier_msg = None
    /\ prover_msgs = <<>>
    /\ p_result = "none"
    /\ proof = <<>>
    /\ claimed_sum = 0
    /\ v_rng = setup
    /\ verifier_state = None
    /\ v_i = 0
    /\ v_result = NoResult
    /\ polynomial_0 \in SparsePolynomials
    /\ polynomial_1 \in SparsePolynomials
    /\ prover_0_state = None
    /\ prover_1_state = None
    /\ prover_0_msgs = <<>>
    /\ prover_1_msgs = <<>>
    /\ polynomial_info = None
    /\ proofs = None
    /\ verifiers_state = None

\* SpecMultiProve: multi_degree_prove_as_subprotocol alone
SpecMultiProve == InitMulti /\ [][NextMultiProve]_vars

(***************************************************************************)
(* The batched verifier engine (spec 4.3): the logic of verify_round and   *)
(* check_and_generate_subclaim on a pair of verifier states that advance   *)
(* together, with one challenge per round for the two.                     *)
(***************************************************************************)
\* the failure a pair of states carries, if any
PairFailure(sts) ==
    IF sts[1].failure # NoFailure THEN sts[1].failure ELSE sts[2].failure

\* does multi_degree_verify_round get as far as sampling a challenge?
MultiRoundSamples(sts, messages) ==
    /\ PairFailure(sts) = NoFailure
    /\ RoundFailure(sts[1], messages[1]) = NoFailure
    /\ RoundFailure(sts[2], messages[2]) = NoFailure

\* multi_degree_verify_round with the challenge r sampled in its step 3
multi_degree_verify_round(messages, sts, r) ==
    IF PairFailure(sts) # NoFailure THEN sts
    ELSE IF MultiRoundSamples(sts, messages)
         THEN <<verify_round(messages[1], sts[1], r), verify_round(messages[2], sts[2], r)>>
         ELSE <<[sts[1] EXCEPT !.failure = RoundFailure(sts[1], messages[1])],
                [sts[2] EXCEPT !.failure = RoundFailure(sts[2], messages[2])]>>

\* multi_degree_check_and_generate_subclaim: the two baselines together
\* against the one claimed sum; the sub-claim at state 0's point
multi_degree_check_and_generate_subclaim(sts, claimed) ==
    IF PairFailure(sts) # NoFailure
    THEN [status |-> PairFailure(sts), check |-> "round", point |-> <<>>,
          expected_value |-> None]
    ELSE IF sts[1].baseline = None \/ sts[2].baseline = None
            \/ FAdd(sts[1].baseline[1], sts[2].baseline[1]) # claimed
    THEN [status |-> "inconsistent", check |-> "claimed_sum",
          point |-> <<>>, expected_value |-> None]
    ELSE [status |-> "ok", check |-> "all",
          point |-> sts[1].randomness,
          expected_value |-> Some(FAdd(sts[1].expected[1], sts[2].expected[1]))]

(***************************************************************************)
(* The arguments a caller hands to the batched verifier after a batched    *)
(* prove: the two shape summaries and the two proofs as proven, the pair   *)
(* the other way round, polynomial_1's summary and proof twice, or the     *)
(* pair as proven with the tail of one proof cut off.                      *)
(***************************************************************************)
MultiArgs ==
    LET i0 == info(polynomial_0)
        i1 == info(polynomial_1)
    IN {[infos |-> <<i0, i1>>, proofs |-> <<prover_0_msgs, prover_1_msgs>>],
        [infos |-> <<i1, i0>>, proofs |-> <<prover_1_msgs, prover_0_msgs>>],
        [infos |-> <<i1, i1>>, proofs |-> <<prover_1_msgs, prover_1_msgs>>]}
       \cup {[infos |-> <<i0, i1>>, proofs |-> <<t, prover_1_msgs>>] :
                t \in Truncated(prover_0_msgs)}
       \cup {[infos |-> <<i0, i1>>, proofs |-> <<prover_0_msgs, t>>] :
                t \in Truncated(prover_1_msgs)}

\* the sums claimed with a pair of proofs: the sum the two proofs carry,
\* and zero
MultiClaimedSums(prfs) ==
    {0} \cup (IF Len(prfs[1]) > 0 /\ Len(prfs[2]) > 0
              THEN {FAdd(extract_sum(prfs[1]), extract_sum(prfs[2]))} ELSE {})

\* the caller of the batched verifier, on a transcript in the initial state
CallMultiVerify ==
    /\ pc = "p_done"
    /\ polynomial_0 # None
    /\ p_result = "ok"
    /\ \E a \in MultiArgs :
        /\ polynomial_info' = a.infos
        /\ proofs' = a.proofs
        /\ claimed_sum' \in MultiClaimedSums(a.proofs)
    /\ v_rng' = setup
    /\ pc' = "mv_start"
    /\ UNCHANGED <<polynomial, oracle, pvars, proof, verifier_state, v_i, v_result,
                   polynomial_0, polynomial_1, prover_0_state, prover_1_state,
                   prover_0_msgs, prover_1_msgs, verifiers_state>>

(***************************************************************************)
(* multi_degree_verify_as_subprotocol (mod.rs 126-161).                    *)
(***************************************************************************)
\* lines 132-133, the first or the second feed fails: the error is returned
MultiVerifyInfoFeedFails ==
    /\ pc = "mv_start"
    /\ \/ UNCHANGED v_rng
       \/ v_rng' = feed(v_rng, FeedInfo(polynomial_info[1]))
    /\ pc' = "v_done"
    /\ v_result' = Failed("err_transcript")
    /\ UNCHANGED <<polynomial, oracle, pvars, proof, claimed_sum, verifier_state, v_i, bvars>>

\* lines 132-137: feed both shape summaries, create both verifier states
MultiVerifyStart ==
    /\ pc = "mv_start"
    /\ v_rng' = feed(feed(v_rng, FeedInfo(polynomial_info[1])), FeedInfo(polynomial_info[2]))
    /\ verifiers_state' = <<verifier_init(polynomial_info[1]), verifier_init(polynomial_info[2])>>
    /\ v_i' = 0
    /\ pc' = "mv_loop"
    /\ UNCHANGED <<polynomial, oracle, pvars, proof, claimed_sum, verifier_state, v_result,
                   polynomial_0, polynomial_1, prover_0_state, prover_1_state,
                   prover_0_msgs, prover_1_msgs, polynomial_info, proofs>>

\* lines 140-141: proofs.0.get(i) or proofs.1.get(i) is None and expect()
\* panics
MultiVerifySharedPanics ==
    /\ pc = "mv_loop"
    /\ v_i < polynomial_info[2].num_variables
    /\ v_i >= Len(proofs[1]) \/ v_i >= Len(proofs[2])
    /\ pc' = "v_done"
    /\ v_result' = Failed("panic")
    /\ UNCHANGED <<polynomial, oracle, pvars, proof, claimed_sum, v_rng, verifier_state, v_i,
                   bvars>>

\* lines 143-144, the feed of message 0 or of message 1 fails
MultiVerifySharedFeedFails ==
    /\ pc = "mv_loop"
    /\ v_i < polynomial_info[2].num_variables
    /\ v_i < Len(proofs[1]) /\ v_i < Len(proofs[2])
    /\ \/ UNCHANGED v_rng
       \/ v_rng' = feed(v_rng, FeedMsg(proofs[1][v_i + 1]))
    /\ pc' = "v_done"
    /\ v_result' = Failed("err_transcript")
    /\ UNCHANGED <<polynomial, oracle, pvars, proof, claimed_sum, verifier_state, v_i, bvars>>

\* as MultiVerifySharedRound, but message 1 is fed before message 0
MultiVerifySharedRound_FeedSwapped ==
    /\ pc = "mv_loop"
    /\ v_i < polynomial_info[2].num_variables
    /\ v_i < Len(proofs[1]) /\ v_i < Len(proofs[2])
    /\ LET prover_msgs_i == <<proofs[1][v_i + 1], proofs[2][v_i + 1]>>
           fed == feed(feed(v_rng, FeedMsg(prover_msgs_i[2])), FeedMsg(prover_msgs_i[1]))
       IN IF MultiRoundSamples(verifiers_state, prover_msgs_i)
          THEN \E r \in Challenges(fed, oracle) :
                /\ oracle' = Answered(fed, oracle, r)
                /\ v_rng' = feed(fed, SampleEv(r))
                /\ verifiers_state' =
                     multi_degree_verify_round(prover_msgs_i, verifiers_state, r)
          ELSE /\ v_rng' = fed
               /\ verifiers_state' =
                     multi_degree_verify_round(prover_msgs_i, verifiers_state, 0)
               /\ UNCHANGED oracle
    /\ v_i' = v_i + 1
    /\ UNCHANGED <<polynomial, pc, pvars, proof, claimed_sum, verifier_state, v_result,
                   polynomial_0, polynomial_1, prover_0_state, prover_1_state,
                   prover_0_msgs, prover_1_msgs, polynomial_info, proofs>>

\* lines 138-150, one shared iteration: both get(i), both feeds,
\* multi_degree_verify_round (result dropped)
MultiVerifySharedRound ==
    /\ pc = "mv_loop"
    /\ v_i < polynomial_info[2].num_variables
    /\ v_i < Len(proofs[1]) /\ v_i < Len(proofs[2])
    /\ LET prover_msgs_i == <<proofs[1][v_i + 1], proofs[2][v_i + 1]>>
           fed == feed(feed(v_rng, FeedMsg(prover_msgs_i[1])), FeedMsg(prover_msgs_i[2]))
       IN IF MultiRoundSamples(verifiers_state, prover_msgs_i)
          THEN \E r \in Challenges(fed, oracle) :
                /\ oracle' = Answered(fed, oracle, r)
                /\ v_rng' = feed(fed, SampleEv(r))
                /\ verifiers_state' =
                     multi_degree_verify_round(prover_msgs_i, verifiers_state, r)
          ELSE /\ v_rng' = fed
               /\ verifiers_state' =
                     multi_degree_verify_round(prover_msgs_i, verifiers_state, 0)
               /\ UNCHANGED oracle
    /\ v_i' = v_i + 1
    /\ UNCHANGED <<polynomial, pc, pvars, proof, claimed_sum, verifier_state, v_result,
                   polynomial_0, polynomial_1, prover_0_state, prover_1_state,
                   prover_0_msgs, prover_1_msgs, polynomial_info, proofs>>

\* line 152: proofs.0.get(i) is None and expect() panics
MultiVerifyTailPanics ==
    /\ pc = "mv_loop"
    /\ v_i >= polynomial_info[2].num_variables
    /\ v_i < polynomial_info[1].num_variables
    /\ v_i >= Len(proofs[1])
    /\ pc' = "v_done"
    /\ v_result' = Failed("panic")
    /\ UNCHANGED <<polynomial, oracle, pvars, proof, claimed_sum, v_rng, verifier_state, v_i,
                   bvars>>

\* line 153, the feed of message 0 fails
MultiVerifyTailFeedFails ==
    /\ pc = "mv_loop"
    /\ v_i >= polynomial_info[2].num_variables
    /\ v_i < polynomial_info[1].num_variables
    /\ v_i < Len(proofs[1])
    /\ pc' = "v_done"
    /\ v_result' = Failed("err_transcript")
    /\ UNCHANGED <<polynomial, oracle, pvars, proof, claimed_sum, v_rng, verifier_state, v_i,
                   bvars>>

\* lines 151-159, one iteration of the rest: get(i), feed, verify_round on
\* verifier state 0 (result dropped)
MultiVerifyTailRound ==
    /\ pc = "mv_loop"
    /\ v_i >= polynomial_info[2].num_variables
    /\ v_i < polynomial_info[1].num_variables
    /\ v_i < Len(proofs[1])
    /\ LET prover_msg == proofs[1][v_i + 1]
           fed == feed(v_rng, FeedMsg(prover_msg))
       IN IF RoundSamples(verifiers_state[1], prover_msg)
          THEN \E r \in Challenges(fed, oracle) :
                /\ oracle' = Answered(fed, oracle, r)
                /\ v_rng' = feed(fed, SampleEv(r))
                /\ verifiers_state' =
                     <<verify_round(prover_msg, verifiers_state[1], r), verifiers_state[2]>>
          ELSE /\ v_rng' = fed
               /\ verifiers_state' =
                     <<verify_round(prover_msg, verifiers_state[1], 0), verifiers_state[2]>>
               /\ UNCHANGED oracle
    /\ v_i' = v_i + 1
    /\ UNCHANGED <<polynomial, pc, pvars, proof, claimed_sum, verifier_state, v_result,
                   polynomial_0, polynomial_1, prover_0_state, prover_1_state,
                   prover_0_msgs, prover_1_msgs, polynomial_info, proofs>>

\* line 160: multi_degree_check_and_generate_subclaim
MultiVerifyFinish ==
    /\ pc = "mv_loop"
    /\ v_i >= polynomial_info[2].num_variables
    /\ v_i >= polynomial_info[1].num_variables
    /\ pc' = "v_done"
    /\ v_result' = multi_degree_check_and_generate_subclaim(verifiers_state, claimed_sum)
    /\ UNCHANGED <<polynomial, oracle, pvars, proof, claimed_sum, v_rng, verifier_state, v_i,
                   bvars>>

NextMultiVerify ==
    \/ CallMultiVerify
    \/ MultiVerifyInfoFeedFails
    \/ MultiVerifyStart
    \/ MultiVerifySharedPanics
    \/ MultiVerifySharedFeedFails
    \/ MultiVerifySharedRound
    \/ MultiVerifyTailPanics
    \/ MultiVerifyTailFeedFails
    \/ MultiVerifyTailRound
    \/ MultiVerifyFinish

\* SpecMulti: the batched prover, then the batched verifier
NextMulti == NextMultiProve \/ NextMultiVerify

SpecMulti == InitMulti /\ [][NextMulti]_vars

\* SpecAll: every entry point; a run is prove then verify, or the batched
\* prover then the batched verifier
InitAll == Init \/ InitMulti

NextAll == Next \/ NextMulti

SpecAll == InitAll /\ [][NextAll]_vars

\* SpecProvers: either prover entry point, each from its own start
InitProvers == InitProve \/ InitMulti

NextProvers == NextProve \/ NextMultiProve

SpecProvers == InitProvers /\ [][NextProvers]_vars

(***************************************************************************)
(* Properties.                                                             *)
(***************************************************************************)
num_variables == polynomial.num_variables

\* evaluations[0] + evaluations[1] of a round message
Sum01(message) == FAdd(message.evaluations[1], message.evaluations[2])

\* every message of the proof carries max_multiplicands+1 evaluations
WellSized(prf) ==
    \A i \in 1..Len(prf) : Len(prf[i].evaluations) = max_multiplicands(polynomial) + 1

\* verify has returned, and not because the transcript refused a feed
Verified == pc = "v_done" /\ v_result.status # "err_transcript"

\* C1: the proof prove returns carries, as evaluations[0] + evaluations[1]
\* of its first message, the sum of the polynomial over the whole Boolean
\* hypercube.
C1_ExtractSumIsHypercubeSum ==
    p_result = "ok" => extract_sum(prover_msgs) = HypercubeSum(polynomial)

C1_Witness ==
    /\ p_result = "ok"
    /\ num_variables = 2
    /\ Len(polynomial.products) = 2
    /\ extract_sum(prover_msgs) = 3

\* C2: verify of the prover's proof with the true sum as claimed sum
\* succeeds, and the sub-claim's expected value is the polynomial's value at
\* the sub-claim's point (a transcript that refuses a feed aside).
C2_Completeness ==
    (Verified /\ proof = prover_msgs /\ claimed_sum = HypercubeSum(polynomial))
        => /\ v_result.status = "ok"
           /\ Len(v_result.point) = num_variables
           /\ v_result.expected_value = Some(PolyEval(polynomial, v_result.point))

C2_Witness ==
    /\ Verified
    /\ proof = prover_msgs
    /\ claimed_sum = HypercubeSum(polynomial)
    /\ v_result.status = "ok"
    /\ num_variables = 2
    /\ max_multiplicands(polynomial) = 2
    /\ v_result.point = <<3, 2>>
    /\ v_result.expected_value \notin {Some(0), None}

\* C3: a proof with fewer than num_variables messages makes verify return
\* the malformed-proof error; verify never panics on it.
C3_ShortProofIsMalformed ==
    (Verified /\ Len(proof) < num_variables) => v_result.status = "malformed"

\* C4: with a proof of the full length (every message well sized), verify
\* returns the consistency error and no sub-claim whenever the claimed sum
\* differs from evaluations[0] + evaluations[1] of the first message; when
\* no round failed, the comparison with the claimed sum is the one check
\* that fails, made after all num_variables rounds.
C4_MismatchedSumRejected ==
    (/\ Verified
     /\ Len(proof) = num_variables
     /\ WellSized(proof)
     /\ claimed_sum # extract_sum(proof))
        => /\ v_result.status = "inconsistent"
           /\ v_result.point = <<>>
           /\ v_result.expected_value = None
           /\ verifier_state.failure = NoFailure
                => /\ v_result.check = "claimed_sum"
                   /\ v_i = num_variables
                   /\ Len(Sampled(v_rng)) = num_variables

C4_Witness ==
    /\ Verified
    /\ proof = prover_msgs
    /\ num_variables = 2
    /\ claimed_sum # extract_sum(proof)
    /\ v_result.status = "inconsistent"
    /\ v_result.check = "claimed_sum"
    /\ v_i = 2

\* the rounds k > 0 (messages 2..) whose evaluations[0] + evaluations[1]
\* differs from the previous message interpolated at the challenge the
\* verifier's transcript gave for it
MismatchedRounds ==
    { k \in 2..Len(proof) :
        /\ k - 1 <= Len(Sampled(v_rng))
        /\ Sum01(proof[k]) #
             interpolate_uni_poly(proof[k - 1].evaluations, Sampled(v_rng)[k - 1]) }

\* C5: when the message of some round k > 0 does not sum to the running
\* expected value, verify returns the consistency error and no sub-claim,
\* wherever the mismatch is, the last round included.
C5_RoundMismatchRejected ==
    (/\ Verified
     /\ Len(proof) = num_variables
     /\ WellSized(proof)
     /\ MismatchedRounds # {})
        => /\ v_result.status = "inconsistent"
           /\ v_result.check = "round"
           /\ v_result.point = <<>>
           /\ v_result.expected_value = None

C5_Witness ==
    /\ Verified
    /\ num_variables = 2
    /\ WellSized(proof)
    /\ MismatchedRounds = {2}
    /\ claimed_sum = extract_sum(proof)
    /\ v_result.status = "inconsistent"

\* where a proof differs from the prover's: the pairs (round, evaluation)
Changed(prf) ==
    { <<i, j>> \in (1..Len(prf)) \X (1..(max_multiplicands(polynomial) + 1)) :
        prf[i].evaluations[j] # prover_msgs[i].evaluations[j] }

\* the prover's proof with exactly one evaluation changed, verified with
\* the true sum
SingleTamper ==
    /\ Verified
    /\ Len(proof) = Len(prover_msgs)
    /\ WellSized(proof)
    /\ Cardinality(Changed(proof)) = 1
    /\ claimed_sum = HypercubeSum(polynomial)

\* C6 as claimed: every single changed evaluation makes verify return the
\* consistency error.
C6_AnyTamperRejected == SingleTamper => v_result.status = "inconsistent"

\* C6 as amended: a changed evaluation 0 or 1, in any round, makes verify
\* return the consistency error; a changed evaluation of index 2 or more in
\* the last round is not noticed, verify returns a sub-claim.
C6_TamperSum01Rejected ==
    SingleTamper =>
        \A c \in Changed(proof) :
            /\ c[2] <= 2 => v_result.status = "inconsistent"
            /\ (c[2] > 2 /\ c[1] = num_variables) => v_result.status = "ok"

C6_Witness ==
    /\ SingleTamper
    /\ num_variables = 2
    /\ Changed(proof) = {<<2, 2>>}
    /\ v_result.status = "inconsistent"

\* the transcript of a prove call that has fed the shape summary and n
\* messages: the summary, then message and challenge of each round
ProverTranscriptShape(n) ==
    /\ Len(fs_rng) = 1 + 2 * n
    /\ fs_rng[1] = FeedInfo(info(polynomial))
    /\ \A i \in 1..n :
        /\ fs_rng[2 * i] = FeedMsg(prover_msgs[i])
        /\ fs_rng[2 * i + 1].op = "sample"

\* C7: prove_as_subprotocol feeds the shape summary once, before any
\* message; then per round the message and, right after it, the sample of
\* the round's challenge; the challenge of round i is the one prove_round
\* gets (and records) in round i+1.
C7_TranscriptOrder ==
    /\ pc = "p_start" => fs_rng = setup
    /\ (pc # "p_start" /\ fs_rng # setup) =>
        /\ ProverTranscriptShape(Len(prover_msgs))
        /\ pc = "p_loop" =>
            /\ Len(prover_state.randomness) =
                 IF prover_msgs = <<>> THEN 0 ELSE Len(prover_msgs) - 1
            /\ verifier_msg =
                 IF prover_msgs = <<>> THEN None
                 ELSE Some(fs_rng[Len(fs_rng)].val[1])
        /\ \A i \in 1..Len(prover_state.randomness) :
             /\ i <= Len(prover_msgs)
             /\ prover_state.randomness[i] = fs_rng[2 * i + 1].val[1]

C7_Witness ==
    /\ pc = "p_loop"
    /\ Len(prover_msgs) = 2
    /\ Len(fs_rng) = 5
    /\ prover_state.randomness = <<3>>
    /\ verifier_msg = Some(4)

\* is s an initial segment of t
IsPrefix(s, t) == Len(s) <= Len(t) /\ s = SubSeq(t, 1, Len(s))

\* C8: verifying the prover's proof on a transcript in the prover's initial
\* state, the verifier's transcript repeats the prover's, feed by feed and
\* challenge by challenge; after the last round the two are equal, and the
\* sub-claim's point is the prover state's challenge list (a transcript
\* that refuses a feed aside).
C8_FiatShamirAgreement ==
    ((pc = "v_loop" \/ Verified) /\ proof = prover_msgs) =>
        /\ IsPrefix(v_rng, fs_rng)
        /\ Len(v_rng) = 1 + 2 * v_i
        /\ verifier_state.randomness = SubSeq(prover_state.randomness, 1, v_i)
        /\ v_i = num_variables => v_rng = fs_rng
        /\ v_result.status = "ok" => v_result.point = prover_state.randomness

C8_Witness ==
    /\ pc = "v_done"
    /\ proof = prover_msgs
    /\ num_variables = 2
    /\ v_result.status = "ok"
    /\ v_result.point = <<4, 2>>
    /\ v_rng = fs_rng

\* C9: for every arity, prove_as_subprotocol returns a prover state whose
\* challenge list holds the num_variables sampled challenges, in order.
C9_ChallengeListComplete ==
    (pc = "p_done" /\ p_result # "err_transcript") =>
        /\ p_result = "ok"
        /\ Len(prover_state.randomness) = num_variables
        /\ prover_state.randomness = Sampled(fs_rng)

\* C10: in the prover state prove_as_subprotocol returns, every table is
\* folded on all num_variables challenges: one cell, remaining arity 0,
\* the table's value at the sub-claim point.
C10_TablesFullyFolded ==
    p_result = "ok" =>
        /\ prover_state.num_vars = 0
        /\ \A j \in 1..Len(prover_state.flattened_ml_extensions) :
             /\ Len(prover_state.flattened_ml_extensions[j]) = 1
             /\ prover_state.flattened_ml_extensions[j][1] =
                  evaluate(polynomial.tables[j], prover_state.randomness)

\* the prover state at the start of round k (rounds counted from 1) when the
\* earlier challenges were chals, and the message that round produces
RECURSIVE ProverBefore(_, _, _)
ProverBefore(poly, chals, k) ==
    IF k = 1 THEN prover_init(poly)
    ELSE prove_round(ProverBefore(poly, chals, k - 1),
                     IF k = 2 THEN None ELSE Some(chals[k - 2])).state

RoundMessage(poly, chals, k) ==
    prove_round(ProverBefore(poly, chals, k),
                IF k = 1 THEN None ELSE Some(chals[k - 1])).msg

\* prf is the proof of poly on challenges chals: one message per variable,
\* the i-th being the message of round i
IsProofOf(prf, poly, chals) ==
    /\ Len(prf) = poly.num_variables
    /\ \A i \in 1..Len(prf) : prf[i] = RoundMessage(poly, chals, i)

\* a batched run, as opposed to a run of prove / verify
Batched == polynomial_0 # None

\* C11: the proof prove_as_subprotocol returns has exactly num_variables
\* messages, the i-th being the one round i produced; the two proofs the
\* batched prover returns have num_variables(polynomial_0) and
\* num_variables(polynomial_1) messages, in round order as well.
C11_ProofIsRoundMessages ==
    /\ (~Batched /\ p_result = "ok") =>
            IsProofOf(prover_msgs, polynomial, Sampled(fs_rng))
    /\ (Batched /\ p_result = "ok") =>
            /\ IsProofOf(prover_0_msgs, polynomial_0, Sampled(fs_rng))
            /\ IsProofOf(prover_1_msgs, polynomial_1, Sampled(fs_rng))

\* a batched run returned two proofs of different lengths whose messages
\* differ from round to round
C11_Witness ==
    /\ Batched
    /\ p_result = "ok"
    /\ Len(prover_0_msgs) = 2
    /\ Len(prover_1_msgs) = 1
    /\ prover_0_msgs[1] # prover_0_msgs[2]

\* the batched prover's transcript holds both shape summaries, then k
\* shared rounds of message 0, message 1, one sample
SharedTranscriptShape(k) ==
    /\ Len(fs_rng) >= 2 + 3 * k
    /\ fs_rng[1] = FeedInfo(info(polynomial_0))
    /\ fs_rng[2] = FeedInfo(info(polynomial_1))
    /\ \A i \in 1..k :
        /\ fs_rng[3 * i] = FeedMsg(prover_0_msgs[i])
        /\ fs_rng[3 * i + 1] = FeedMsg(prover_1_msgs[i])
        /\ fs_rng[3 * i + 2].op = "sample"

C13_SharedChallenges ==
    (Batched /\ p_result = "ok") =>
        LET n1 == polynomial_1.num_variables
        IN /\ Len(prover_1_state.randomness) = n1
           /\ IsPrefix(prover_1_state.randomness, prover_0_state.randomness)
           /\ prover_1_state.randomness = SubSeq(Sampled(fs_rng), 1, n1)
           /\ SubSeq(prover_0_state.randomness, 1, n1) = SubSeq(Sampled(fs_rng), 1, n1)

\* the batched prover returned, and the challenge after the shared round
\* differs from the shared one
C13_Witness ==
    /\ Batched
    /\ p_result = "ok"
    /\ prover_1_state.randomness = <<3>>
    /\ prover_0_state.randomness = <<3, 2>>

\* C14: called with num_variables(polynomial_0) not above
\* num_variables(polynomial_1), multi_degree_prove_as_subprotocol panics
\* at once: the transcript is untouched, no challenge is drawn, no prover
\* state exists and no message is produced.
C14_ShapeMismatchAborts ==
    (Batched /\ ~(polynomial_0.num_variables > polynomial_1.num_variables)) =>
        /\ pc \in {"mp_start", "p_done"}
        /\ pc = "p_done" => p_result = "panic"
        /\ fs_rng = setup
        /\ oracle = <<>>
        /\ prover_0_state = None
        /\ prover_1_state = None
        /\ prover_0_msgs = <<>>
        /\ prover_1_msgs = <<>>

\* the call was made with two polynomials of arity 1 and has panicked
C14_Witness ==
    /\ Batched
    /\ polynomial_0.num_variables = 1
    /\ polynomial_1.num_variables = 1
    /\ pc = "p_done"
    /\ p_result = "panic"

\* the batched prover's transcript after the shared rounds: per remaining
\* round prover 0's message, then one sample, and nothing else
TailTranscriptShape(n0, n1) ==
    /\ Len(fs_rng) = 2 + 3 * n1 + 2 * (n0 - n1)
    /\ \A i \in 1..(n0 - n1) :
        /\ fs_rng[1 + 3 * n1 + 2 * i] = FeedMsg(prover_0_msgs[n1 + i])
        /\ fs_rng[2 + 3 * n1 + 2 * i].op = "sample"

\* the outcome C18 describes for arities n1 < n0
BatchedTailOutcome(n0, n1) ==
    /\ p_result = "ok"
    /\ Len(prover_1_state.randomness) = n1
    /\ Len(prover_1_msgs) = n1
    /\ Len(prover_0_state.randomness) = n0
    /\ Len(Sampled(fs_rng)) = n0
    /\ prover_0_state.randomness = Sampled(fs_rng)
    /\ SharedTranscriptShape(n1)
    /\ TailTranscriptShape(n0, n1)

\* C18: for every n1 < n0, n1 = 0 included, the batched prover (unless the
\* transcript refuses a feed) returns with prover 1's challenge list of
\* length n1, prover 0's of length n0, n0 challenges sampled, and after the
\* shared rounds only prover 0's message and one sample per round.
C18_BatchedTail ==
    (/\ Batched
     /\ polynomial_0.num_variables > polynomial_1.num_variables
     /\ pc = "p_done"
     /\ p_result # "err_transcript") =>
        BatchedTailOutcome(polynomial_0.num_variables, polynomial_1.num_variables)

\* the batched verifier has been called with shape summaries of which
\* the first's arity is not above the second's
VerifierShapeMismatch ==
    /\ polynomial_info # None
    /\ ~(polynomial_info[1].num_variables > polynomial_info[2].num_variables)

\* C15: called with polynomial_info.0's arity not above polynomial_info.1's,
\* multi_degree_verify_as_subprotocol runs no round, advances neither
\* verifier state and returns no success sub-claim.
C15_VerifierShapeMismatchRejected ==
    (VerifierShapeMismatch /\ pc \in {"mv_loop", "v_done"}) =>
        /\ v_i = 0
        /\ verifiers_state # None =>
              verifiers_state[1].round = 0 /\ verifiers_state[2].round = 0
        /\ v_result.status # "ok"

\* the batched verifier was called with the shape summaries of the two
\* polynomials proven and the two proofs the batched prover returned
GenuineCall ==
    /\ polynomial_info = <<info(polynomial_0), info(polynomial_1)>>
    /\ proofs = <<prover_0_msgs, prover_1_msgs>>

\* the batched verifier's transcript after k of its rounds: both shape
\* summaries; per shared round message 0, message 1, one sample; per
\* later round message 0, one sample
VerifierTranscriptShape(k) ==
    LET n1 == polynomial_info[2].num_variables
        sh == IF k < n1 THEN k ELSE n1
    IN /\ Len(v_rng) = 2 + 3 * sh + 2 * (k - sh)
       /\ v_rng[1] = FeedInfo(polynomial_info[1])
       /\ v_rng[2] = FeedInfo(polynomial_info[2])
       /\ \A i \in 1..sh :
            /\ v_rng[3 * i] = FeedMsg(proofs[1][i])
            /\ v_rng[3 * i + 1] = FeedMsg(proofs[2][i])
            /\ v_rng[3 * i + 2].op = "sample"
       /\ \A i \in 1..(k - sh) :
            /\ v_rng[1 + 3 * sh + 2 * i] = FeedMsg(proofs[1][sh + i])
            /\ v_rng[2 + 3 * sh + 2 * i].op = "sample"

\* C19: verifying the batched prover's two proofs with the two shape
\* summaries on a transcript in the prover's initial state, the batched
\* verifier feeds info 0, info 1, then per shared round message 0,
\* message 1 and one sample, then per later round message 0 and one
\* sample; its transcript repeats the prover's and its challenges are the
\* prover's, round by round (a transcript that refuses a feed aside).
C19_BatchedVerifierMirrorsProver ==
    (GenuineCall /\ pc \in {"mv_loop", "v_done"} /\ v_result.status # "err_transcript") =>
        /\ VerifierTranscriptShape(v_i)
        /\ IsPrefix(v_rng, fs_rng)
        /\ IsPrefix(Sampled(v_rng), prover_0_state.randomness)
        /\ Len(Sampled(v_rng)) = v_i
        /\ verifiers_state[1].randomness = Sampled(v_rng)
        /\ pc = "v_done" =>
              /\ v_rng = fs_rng
              /\ verifiers_state[1].randomness = prover_0_state.randomness
              /\ verifiers_state[2].randomness = prover_1_state.randomness

\* the batched verifier has returned a sub-claim on the prover's proofs,
\* after a shared round and a later round with different challenges
C19_Witness ==
    /\ GenuineCall
    /\ pc = "v_done"
    /\ v_result.status = "ok"
    /\ Sampled(v_rng) = <<3, 2>>
    /\ proofs[1][1] # proofs[2][1]

\* the rounds (from 1) whose message does not carry max_multiplicands+1
\* evaluations
MalformedRounds ==
    { k \in 1..Len(proof) :
        Len(proof[k].evaluations) # max_multiplicands(polynomial) + 1 }

\* C17: a proof of num_variables messages of which one has too few or too
\* many evaluations makes verify_as_subprotocol return the malformed-proof
\* error, not the consistency error and not a sub-claim, whichever round
\* the message is in and whatever sum is claimed.
C17_WrongSizeIsMalformed ==
    (~Batched /\ Verified /\ Len(proof) = num_variables /\ MalformedRounds # {}) =>
        /\ v_result.status = "malformed"
        /\ v_result.point = <<>>
        /\ v_result.expected_value = None

\* verify has returned on a two-message proof whose last message alone has
\* the wrong number of evaluations
C17_Witness ==
    /\ ~Batched
    /\ Verified
    /\ Len(proof) = 2
    /\ num_variables = 2
    /\ MalformedRounds = {2}
    /\ Len(proof[2].evaluations) = max_multiplicands(polynomial) + 2
    /\ claimed_sum = extract_sum(proof)
    /\ v_result.status = "malformed"

\* a feed has failed in the prover or in the verifier of this run
TranscriptFailed == p_result = "err_transcript" \/ v_result.status = "err_transcript"

\* a call that ended on a failed feed has returned, with the error alone
FailedCallReturned ==
    /\ p_result = "err_transcript" => pc = "p_done"
    /\ v_result.status = "err_transcript" =>
          /\ pc = "v_done"
          /\ v_result.point = <<>>
          /\ v_result.expected_value = None

\* nothing happens after a failed feed, and the step in which a feed fails
\* samples no challenge, records no message and runs no verifier round
FailedFeedStep ==
    /\ ~TranscriptFailed
    /\ TranscriptFailed' =>
          /\ Sampled(fs_rng') = Sampled(fs_rng)
          /\ Sampled(v_rng') = Sampled(v_rng)
          /\ UNCHANGED <<oracle, verifier_msg, prover_msgs, prover_0_msgs, prover_1_msgs,
                         verifier_state, verifiers_state, v_i>>

\* C16: in prove, verify and the two batched entry points, a feed that
\* fails ends the call at once with the transcript error: no feed, sample,
\* prove_round or verify_round follows, and neither a proof nor a
\* sub-claim is returned.
C16_FeedFailureAborts == []FailedCallReturned /\ [][FailedFeedStep]_vars

\* the batched verifier returned the transcript error from the second feed
\* of a shared round
C16_Witness ==
    /\ Batched
    /\ pc = "v_done"
    /\ v_result.status = "err_transcript"
    /\ Len(v_rng) = 3
    /\ v_rng[3].kind = "msg"

====
